---- MODULE Spec2Model ----
(***************************************************************************)
(* Dropee-Backend: the assignment server.                                  *)
(*                                                                         *)
(*   assigner.js   (src/unnamed/part_002)  haversineDistanceKm,            *)
(*                                         assignDriverForBooking          *)
(*   server.js     (src/unnamed/part_000)  POST /booking, the bookings     *)
(*                                         listener, POST /rebalance, the  *)
(*                                         periodic rebalancer             *)
(*   rebalancer.js (src/unnamed/part_001)  identifyHotspots,               *)
(*                                         generateRebalanceSuggestions,   *)
(*                                         runRebalancer                   *)
(*                                                                         *)
(* The Firestore collections "bookings" and "vehicles" are the shared      *)
(* state.  Every await of the code is a step of its own; a Firestore       *)
(* transaction (db.runTransaction) is one atomic step.                     *)
(***************************************************************************)
EXTENDS Integers, Sequences, FiniteSets, TLC

(***************************************************************************)
(* Bounds of the model.                                                    *)
(***************************************************************************)
\* writes of the other clients (the driver and rider apps) during a run
MaxEnvSteps == 1
\* booking documents of the last hour when the rebalancer runs
MaxRecent == 3

(***************************************************************************)
(* Program constants.                                                      *)
(***************************************************************************)
\* "if (passengers.length >= 7) return; // skip full"
Capacity == 7

\* the booking documents created during a run
BookingIds == {1, 2}
VehicleIds == {"v1", "v2", "v3"}
\* the order in which the vehicles query returns the documents (by id)
VehicleOrder == <<"v1", "v2", "v3">>

NoVehicle == "none"

(***************************************************************************)
(* Documents.  A coordinate counts steps of 0.0001 degree from (0, 0).     *)
(*   pickup.kind   "coord"   pickup: {lat, lng} holds numbers              *)
(*                 "nan"     pickup: {lat, lng} does not parse as numbers  *)
(*                 "legacy"  no pickup field; latitude and longitude fields*)
(*                 "missing" neither                                       *)
(*   number.kind   "str" a string, "num" a JSON number, "none" absent      *)
(***************************************************************************)
Coord(la, ln) == [kind |-> "coord", lat |-> la, lng |-> ln]
NaNPickup == [kind |-> "nan", lat |-> 0, lng |-> 0]
Legacy(la, ln) == [kind |-> "legacy", lat |-> la, lng |-> ln]
NoPickup == [kind |-> "missing", lat |-> 0, lng |-> 0]
NoLocation == [kind |-> "missing", lat |-> 0, lng |-> 0]

StrNumber == [kind |-> "str", digits |-> <<9, 8, 7, 6, 5>>]
NumNumber == [kind |-> "num", digits |-> <<9, 8, 7, 6, 5>>]
NoNumber == [kind |-> "none", digits |-> <<>>]

NoCode == <<>>
\* what Math.floor(1000 + Math.random() * 9000).toString() can return
RandomCodes == {<<1, 0, 0, 0>>, <<9, 9, 9, 9>>}

AbsentBooking ==
    [status |-> "absent", number |-> NoNumber, pickup |-> NoPickup,
     assignedVehicleId |-> NoVehicle, verificationCode |-> NoCode]

\* the fields applyRebalanceSuggestion writes, before it wrote them
NoTarget == [kind |-> "missing", lat |-> 0, lng |-> 0]
NoReason == 0

AbsentVehicle ==
    [status |-> "absent", location |-> NoLocation, currentPassengers |-> <<>>,
     fcmToken |-> FALSE, targetLocation |-> NoTarget, rebalanceReason |-> NoReason]

\* the bookings vehicle v carries when the server starts: ids outside BookingIds
OldBookings(v, n) ==
    [k \in 1..n |-> (IF v = "v1" THEN 10 ELSE IF v = "v2" THEN 20 ELSE 30) + k]

\* the vehicles collection when the server starts: v1 is empty or has one seat
\* left, v2 is empty and may have reported no location yet; both are idle, or
\* both are on a trip; there is no third vehicle
Fleets ==
    { [v \in VehicleIds |->
          IF v = "v1"
          THEN [status |-> f[3], location |-> Coord(3, 4),
                currentPassengers |-> OldBookings(v, f[1]), fcmToken |-> TRUE,
                targetLocation |-> NoTarget, rebalanceReason |-> NoReason]
          ELSE IF v = "v2"
          THEN [status |-> f[3], location |-> f[2],
                currentPassengers |-> <<>>, fcmToken |-> FALSE,
                targetLocation |-> NoTarget, rebalanceReason |-> NoReason]
          ELSE AbsentVehicle] :
      f \in { <<0, Coord(5, 0), "idle">>,
              <<Capacity - 1, Coord(5, 0), "idle">>,
              <<Capacity - 1, NoLocation, "idle">>,
              <<0, Coord(5, 0), "busy">> } }

\* request bodies of POST /booking
PostPayloads ==
    { [number |-> StrNumber, pickup |-> Coord(0, 0)],
      [number |-> NumNumber, pickup |-> Coord(0, 0)],
      [number |-> StrNumber, pickup |-> NaNPickup],
      [number |-> StrNumber, pickup |-> NoPickup],
      [number |-> NoNumber, pickup |-> Coord(0, 0)] }

\* documents a client writes to the bookings collection itself
DirectDocs ==
    { [number |-> StrNumber, pickup |-> Legacy(6, 8)],
      [number |-> NoNumber, pickup |-> NoPickup] }

VARIABLES
    bookings,   \* collection "bookings": id -> document
    vehicles,   \* collection "vehicles": id -> document
    calls,      \* the invocations of assignDriverForBooking: where each is, or
                \* how it ended (the caller's .catch logs a rejection)
    feed,       \* the listener's "added" event of each booking
    responses,  \* the response of POST /booking for each booking
    pushes,     \* the FCM messages sent, per booking, in the order of sending
    process,    \* the node process: "up" or "crashed"
    rebalancer, \* the last run of runRebalancer: who started it and how it ended
    envSteps    \* writes of the other clients so far

vars ==
    <<bookings, vehicles, calls, feed, responses, pushes, process, rebalancer, envSteps>>

Sources == {"post", "feed"}
CallIds == BookingIds \X Sources

NoChoice == [id |-> NoVehicle, fcmToken |-> FALSE]
NoSnapshot == [number |-> NoNumber, pickup |-> NoPickup]
IdleCall == [pc |-> "idle", booking |-> NoSnapshot, chosen |-> NoChoice, outcome |-> "none"]

\* no run of runRebalancer has ended yet
NoRun == [trigger |-> "none", autoApply |-> FALSE, outcome |-> "none", suggestions |-> <<>>]

(***************************************************************************)
(* haversineDistanceKm, in fixed point.  The arguments count steps of      *)
(* 0.0001 degree and the result counts decimetres (0.0001 km).  Within a   *)
(* few kilometres of (0, 0), sin x = x and cos x = 1 to well below a       *)
(* decimetre, so a = (dLat^2 + dLon^2) / 4, c = 2 * sqrt(a), and one step  *)
(* of arc is R * toRad(0.0001) = 111.1949 dm (111.1949^2 = 12364).         *)
(***************************************************************************)
RECURSIVE SqrtSearch(_, _, _)
SqrtSearch(n, lo, hi) ==
    IF lo >= hi THEN lo
    ELSE LET mid == (lo + hi + 1) \div 2
         IN  IF mid * mid <= n THEN SqrtSearch(n, mid, hi)
             ELSE SqrtSearch(n, lo, mid - 1)

\* Math.sqrt, rounded down
Sqrt(n) == SqrtSearch(n, 0, IF n < 46340 THEN n ELSE 46340)

StepDmSquared == 12364

\* the function with "lon2 - lat1" for dLon
haversineDistanceKm_MixedUp(lat1, lon1, lat2, lon2) ==
    LET dLat == lat2 - lat1
        dLon == lon2 - lat1
        a4 == dLat * dLat + dLon * dLon
    IN  Sqrt(a4 * StepDmSquared)

haversineDistanceKm(lat1, lon1, lat2, lon2) ==
    LET dLat == lat2 - lat1
        dLon == lon2 - lon1
        a4 == dLat * dLat + dLon * dLon
    IN  Sqrt(a4 * StepDmSquared)

Abs(x) == IF x < 0 THEN -x ELSE x

(***************************************************************************)
(* assignDriverForBooking: the candidate scan.                             *)
(***************************************************************************)
\* "if (Math.abs(a.dist - b.dist) < 0.001)", in decimetres
TieDm == 10

\* the scan without "if (passengers.length >= 7) return; // skip full"
Eligible_NoFullSkip(v) ==
    /\ vehicles[v].status = "idle"
    /\ vehicles[v].location.kind = "coord"

\* the scan without the "skip missing location" line
Eligible_NoLocationSkip(v) ==
    /\ vehicles[v].status = "idle"
    /\ Len(vehicles[v].currentPassengers) < Capacity

\* the forEach over the query result: idle, not full, with a location
Eligible(v) ==
    /\ vehicles[v].status = "idle"
    /\ Len(vehicles[v].currentPassengers) < Capacity
    /\ vehicles[v].location.kind = "coord"

Candidate(v, pickup) ==
    [id |-> v,
     dist |-> haversineDistanceKm(vehicles[v].location.lat, vehicles[v].location.lng,
                                  pickup.lat, pickup.lng),
     passengerCount |-> Len(vehicles[v].currentPassengers),
     fcmToken |-> vehicles[v].fcmToken]

RECURSIVE CandidatesFrom(_, _)
CandidatesFrom(i, pickup) ==
    IF i > Len(VehicleOrder) THEN <<>>
    ELSE LET v == VehicleOrder[i]
         IN  (IF Eligible(v) THEN <<Candidate(v, pickup)>> ELSE <<>>)
                 \o CandidatesFrom(i + 1, pickup)

Candidates(pickup) == CandidatesFrom(1, pickup)

\* a comparator that ranks by distance alone
Compare_DistanceOnly(a, b) == a.dist - b.dist

\* the comparator handed to candidates.sort
Compare(a, b) ==
    IF Abs(a.dist - b.dist) < TieDm
    THEN a.passengerCount - b.passengerCount
    ELSE a.dist - b.dist

\* Array.prototype.sort on a short array: a stable insertion sort
RECURSIVE InsertSorted(_, _)
InsertSorted(sorted, x) ==
    IF sorted = <<>> THEN <<x>>
    ELSE LET last == sorted[Len(sorted)]
         IN  IF Compare(last, x) > 0
             THEN Append(InsertSorted(SubSeq(sorted, 1, Len(sorted) - 1), x), last)
             ELSE Append(sorted, x)

RECURSIVE SortFrom(_, _)
SortFrom(cands, i) ==
    IF i = 0 THEN <<>> ELSE InsertSorted(SortFrom(cands, i - 1), cands[i])

\* the candidates left in the order of the query
SortCandidates_Unsorted(cands) == cands

SortCandidates(cands) == SortFrom(cands, Len(cands))

\* phone.slice(-4)
Last4(digits) ==
    IF Len(digits) <= 4 THEN digits ELSE SubSeq(digits, Len(digits) - 3, Len(digits))

Finish(c, result) ==
    calls' = [calls EXCEPT ![c] = [@ EXCEPT !.pc = "done", !.outcome = result]]

\* the load without "if (booking.status !== "pending") return"
AssignLoad_NoStatusCheck(c) ==
    LET b == bookings[c[1]] IN
    /\ process = "up"
    /\ calls[c].pc = "load"
    /\ IF b.status = "absent" THEN Finish(c, "not_found")
       ELSE IF b.pickup.kind # "coord" THEN Finish(c, "invalid")
       ELSE calls' = [calls EXCEPT ![c] =
                [@ EXCEPT !.pc = "scan",
                          !.booking = [number |-> b.number, pickup |-> b.pickup]]]
    /\ UNCHANGED <<bookings, vehicles, feed, responses, pushes, process, rebalancer, envSteps>>

\* bookingRef.get() and the checks before the vehicles query
AssignLoad(c) ==
    LET b == bookings[c[1]] IN
    /\ process = "up"
    /\ calls[c].pc = "load"
    /\ IF b.status = "absent" THEN Finish(c, "not_found")
       ELSE IF b.status # "pending" THEN Finish(c, "skipped")
       ELSE IF b.pickup.kind \in {"missing", "legacy"} THEN Finish(c, "invalid")
       ELSE IF b.pickup.kind = "nan" THEN Finish(c, "invalid")
       ELSE calls' = [calls EXCEPT ![c] =
                [@ EXCEPT !.pc = "scan",
                          !.booking = [number |-> b.number, pickup |-> b.pickup]]]
    /\ UNCHANGED <<bookings, vehicles, feed, responses, pushes, process, rebalancer, envSteps>>

\* the choice with the push sent at once, before the transaction
AssignScan_PushAtChoice(c) ==
    LET cands == Candidates(calls[c].booking.pickup) IN
    /\ process = "up"
    /\ calls[c].pc = "scan"
    /\ IF cands = <<>> THEN Finish(c, "no_candidate") /\ UNCHANGED pushes
       ELSE LET chosen == SortCandidates(cands)[1]
            IN  /\ calls' = [calls EXCEPT ![c] =
                      [@ EXCEPT !.pc = "txn",
                                !.chosen = [id |-> chosen.id, fcmToken |-> chosen.fcmToken]]]
                /\ pushes' = [pushes EXCEPT ![c[1]] =
                      IF chosen.fcmToken
                      THEN Append(@, [to |-> chosen.id, bookingId |-> c[1],
                                      verificationCode |-> <<>>])
                      ELSE @]
    /\ UNCHANGED <<bookings, vehicles, feed, responses, process, rebalancer, envSteps>>

\* the vehicles query, the candidate list, the sort and the choice
AssignScan(c) ==
    LET cands == Candidates(calls[c].booking.pickup) IN
    /\ process = "up"
    /\ calls[c].pc = "scan"
    /\ IF cands = <<>> THEN Finish(c, "no_candidate")
       ELSE LET chosen == SortCandidates(cands)[1]
            IN  calls' = [calls EXCEPT ![c] =
                    [@ EXCEPT !.pc = "txn",
                              !.chosen = [id |-> chosen.id, fcmToken |-> chosen.fcmToken]]]
    /\ UNCHANGED <<bookings, vehicles, feed, responses, pushes, process, rebalancer, envSteps>>

\* the transaction without "if (bData.status !== "pending") throw"
TxnCheck_NoPendingCheck(b, v) ==
    IF bookings[b].status = "absent" THEN "booking_gone"
    ELSE IF vehicles[v].status = "absent" THEN "vehicle_gone"
    ELSE IF Len(vehicles[v].currentPassengers) >= Capacity THEN "vehicle_full"
    ELSE "ok"

\* the transaction without "if (passengers.length >= 7) throw"
TxnCheck_NoCapacityCheck(b, v) ==
    IF bookings[b].status = "absent" THEN "booking_gone"
    ELSE IF bookings[b].status # "pending" THEN "already_handled"
    ELSE IF vehicles[v].status = "absent" THEN "vehicle_gone"
    ELSE "ok"

\* the re-checks of the transaction; "ok" when it goes on to write
TxnCheck(b, v) ==
    IF bookings[b].status = "absent" THEN "booking_gone"
    ELSE IF bookings[b].status # "pending" THEN "already_handled"
    ELSE IF vehicles[v].status = "absent" THEN "vehicle_gone"
    ELSE IF Len(vehicles[v].currentPassengers) >= Capacity THEN "vehicle_full"
    ELSE "ok"

\* the two updates outside a transaction: the booking is written once its own
\* checks pass, the vehicle only if the vehicle's checks pass too
AssignCommit_NotAtomic(c) ==
    LET b == c[1]
        v == calls[c].chosen.id
        res == TxnCheck(b, v)
    IN
    /\ process = "up"
    /\ calls[c].pc = "txn"
    /\ IF res \in {"booking_gone", "already_handled"}
       THEN Finish(c, res) /\ UNCHANGED <<bookings, vehicles>>
       ELSE /\ bookings' = [bookings EXCEPT ![b] =
                    [@ EXCEPT !.status = "assigned",
                              !.assignedVehicleId = v,
                              !.verificationCode = Last4(StrNumber.digits)]]
            /\ IF res = "ok"
               THEN /\ vehicles' = [vehicles EXCEPT ![v].currentPassengers = Append(@, b)]
                    /\ calls' = [calls EXCEPT ![c].pc = "notify"]
               ELSE Finish(c, res) /\ UNCHANGED vehicles
    /\ UNCHANGED <<feed, responses, pushes, process, rebalancer, envSteps>>

\* db.runTransaction: both reads, the checks and both updates, atomically
AssignCommit(c) ==
    LET b == c[1]
        v == calls[c].chosen.id
        phone == bookings[b].number.digits
    IN
    /\ process = "up"
    /\ calls[c].pc = "txn"
    /\ IF TxnCheck(b, v) = "ok"
       THEN /\ \E code \in (IF Last4(phone) # <<>> THEN {Last4(phone)} ELSE RandomCodes) :
                 bookings' = [bookings EXCEPT ![b] =
                     [@ EXCEPT !.status = "assigned",
                               !.assignedVehicleId = v,
                               !.verificationCode = code]]
            /\ vehicles' = [vehicles EXCEPT ![v].currentPassengers = Append(@, b)]
            /\ calls' = [calls EXCEPT ![c].pc = "notify"]
       ELSE /\ Finish(c, TxnCheck(b, v))
            /\ UNCHANGED <<bookings, vehicles>>
    /\ UNCHANGED <<feed, responses, pushes, process, rebalancer, envSteps>>

\* the message of the push: "token: chosen.fcmToken", "bookingId" and
\* "verificationCode: (booking.number || '').slice(-4)", where booking is the
\* document as the call read it before the vehicles query
message(c) ==
    [to |-> calls[c].chosen.id,
     bookingId |-> c[1],
     verificationCode |-> Last4(calls[c].booking.number.digits)]

\* after the transaction: the FCM message to the chosen vehicle's driver
AssignNotify(c) ==
    /\ process = "up"
    /\ calls[c].pc = "notify"
    /\ IF ~calls[c].chosen.fcmToken
       THEN Finish(c, "assigned") /\ UNCHANGED pushes
       ELSE IF calls[c].booking.number.kind = "num"
       \* "verificationCode: (booking.number || "").slice(-4)" of the payload
       \* built before the try: a number has no slice, the call throws
       THEN Finish(c, "threw_after_commit") /\ UNCHANGED pushes
       \* "await admin.messaging().send(message)" in a try whose catch logs
       ELSE \E delivered \in BOOLEAN :
               /\ Finish(c, "assigned")
               /\ pushes' = [pushes EXCEPT ![c[1]] =
                        IF delivered THEN Append(@, message(c)) ELSE @]
    /\ UNCHANGED <<bookings, vehicles, feed, responses, process, rebalancer, envSteps>>

(***************************************************************************)
(* server.js: POST /booking and the bookings listener.                     *)
(***************************************************************************)
\* the documents are created in the order of their ids
Used(b) == responses[b] # "none" \/ feed[b] # "none"
NextSlot(b) == ~Used(b) /\ \A k \in BookingIds : k < b => Used(k)

\* the pickup POST /booking stores for a request body
StoredPickup(p) ==
    IF p.kind = "legacy" THEN Coord(p.lat, p.lng)
    ELSE IF p.kind = "missing" THEN Coord(0, 0)
    ELSE p

NewBooking(number, pickup) ==
    [status |-> "pending", number |-> number, pickup |-> pickup,
     assignedVehicleId |-> NoVehicle, verificationCode |-> NoCode]

\* app.post("/booking"): the document, the fire-and-forget assign, the response
CreateBooking(b, payload) ==
    /\ process = "up"
    /\ NextSlot(b)
    /\ IF payload.number.kind = "none"
       THEN /\ responses' = [responses EXCEPT ![b] = "400"]
            /\ UNCHANGED <<bookings, calls, feed>>
       ELSE /\ bookings' = [bookings EXCEPT ![b] =
                    NewBooking(payload.number, StoredPickup(payload.pickup))]
            /\ feed' = [feed EXCEPT ![b] = "queued"]
            /\ calls' = [calls EXCEPT ![<<b, "post">>].pc = "load"]
            /\ responses' = [responses EXCEPT ![b] = "200"]
    /\ UNCHANGED <<vehicles, pushes, process, rebalancer, envSteps>>

\* a client adds a pending booking document itself: the listener sees it
DirectAdd(b, doc) ==
    /\ NextSlot(b)
    /\ bookings' = [bookings EXCEPT ![b] = NewBooking(doc.number, doc.pickup)]
    /\ feed' = [feed EXCEPT ![b] =
            IF doc.pickup.kind = "legacy" THEN "queued_legacy"
            ELSE IF doc.pickup.kind = "missing" THEN "queued_missing"
            ELSE "queued"]
    /\ UNCHANGED <<vehicles, calls, responses, pushes, process, rebalancer, envSteps>>

\* what an unhandled promise rejection does to the node process: it ends it
\* (the default from Node 15 on) or only warns (before, or with a handler flag)
UnhandledRejection == {"crashed", "up"}

\* the onSnapshot callback for one "added" change
FeedHandle(b) ==
    /\ process = "up"
    /\ feed[b] \in {"queued", "queued_legacy", "queued_missing"}
    /\ IF feed[b] = "queued"
       THEN /\ feed' = [feed EXCEPT ![b] = "handled"]
            /\ calls' = [calls EXCEPT ![<<b, "feed">>].pc = "load"]
            /\ UNCHANGED <<bookings, process>>
       ELSE IF bookings[b].status = "absent"
       \* "await db.collection("bookings").doc(bookingId).update(...)" rejects in
       \* an async forEach callback nobody awaits
       THEN /\ feed' = [feed EXCEPT ![b] = "failed"]
            /\ process' \in UnhandledRejection
            /\ UNCHANGED <<bookings, calls>>
       ELSE /\ bookings' = [bookings EXCEPT ![b].pickup =
                    IF feed[b] = "queued_legacy" THEN Coord(@.lat, @.lng) ELSE Coord(0, 0)]
            /\ feed' = [feed EXCEPT ![b] = "handled"]
            /\ calls' = [calls EXCEPT ![<<b, "feed">>].pc = "load"]
            /\ UNCHANGED process
    /\ UNCHANGED <<vehicles, responses, pushes, rebalancer, envSteps>>

(***************************************************************************)
(* The other writers of the two collections (the driver and rider apps).   *)
(***************************************************************************)
VehicleStatusChange(v) ==
    /\ envSteps < MaxEnvSteps
    /\ envSteps' = envSteps + 1
    /\ vehicles[v].status \in {"idle", "busy"}
    /\ vehicles' = [vehicles EXCEPT ![v].status = IF @ = "idle" THEN "busy" ELSE "idle"]
    /\ UNCHANGED <<bookings, calls, feed, responses, pushes, process, rebalancer>>

VehicleRemoved(v) ==
    /\ envSteps < MaxEnvSteps
    /\ envSteps' = envSteps + 1
    /\ vehicles[v].status # "absent"
    /\ vehicles[v].currentPassengers = <<>>
    /\ vehicles' = [vehicles EXCEPT ![v] = AbsentVehicle]
    /\ UNCHANGED <<bookings, calls, feed, responses, pushes, process, rebalancer>>

BookingCancelled(b) ==
    /\ envSteps < MaxEnvSteps
    /\ envSteps' = envSteps + 1
    /\ bookings[b].status = "pending"
    /\ bookings' = [bookings EXCEPT ![b] = AbsentBooking]
    /\ UNCHANGED <<vehicles, calls, feed, responses, pushes, process, rebalancer>>

(***************************************************************************)
(* rebalancer.js.  A function of it either returns a list or throws.       *)
(***************************************************************************)
\* module.exports of assigner.js
AssignerExports == {"assignDriverForBooking"}

\* "const { haversineDistanceKm } = require("./assigner")": the name is bound
\* to a function only if assigner.js exports it; calling it throws a TypeError
\* otherwise
HaversineImported == "haversineDistanceKm" \in AssignerExports

Threw == [threw |-> TRUE, list |-> <<>>]
Returned(l) == [threw |-> FALSE, list |-> l]

\* "distance < 0.5", "distanceToHotspot < 1.0" and "distance > 0.5", in decimetres
HotspotDm == 5000
NearbyDm == 10000
AtHotspotDm == 5000

\* Math.min(10, Math.round((hotspot.count * 5) / Math.max(1, distance)))
MaxPriority == 10
DemandWeight == 5
DmPerKm == 10000

\* suggestions.slice(0, 3)
TopSuggestions == 3

Min(a, b) == IF a < b THEN a ELSE b

\* getIdleVehicles: status idle and carrying nobody, in the order of the query
RECURSIVE IdleFrom(_)
IdleFrom(i) ==
    IF i > Len(VehicleOrder) THEN <<>>
    ELSE LET v == VehicleOrder[i]
         IN  (IF vehicles[v].status = "idle" /\ vehicles[v].currentPassengers = <<>>
              THEN <<[id |-> v, location |-> vehicles[v].location]>>
              ELSE <<>>) \o IdleFrom(i + 1)

IdleVehicles == IdleFrom(1)

\* getRecentBookings: the documents of the last hour, latest first; every
\* document of the model is that recent, and ids grow with createdAt
RECURSIVE RecentFrom(_)
RecentFrom(b) ==
    IF b < 1 THEN <<>>
    ELSE (IF bookings[b].status # "absent"
          THEN <<[id |-> b, pickup |-> bookings[b].pickup]>>
          ELSE <<>>) \o RecentFrom(b - 1)

RecentBookings == RecentFrom(Cardinality(DOMAIN bookings))

\* "!booking.pickup || !booking.pickup.lat || !booking.pickup.lng": 0 and NaN
\* are falsy
Truthy(p) == p.kind = "coord" /\ p.lat # 0 /\ p.lng # 0

Between(a, b) == haversineDistanceKm(a.lat, a.lng, b.lat, b.lng)

\* "for (const key in hotspots)": the first hotspot less than 0.5 km from p,
\* 0 if there is none
RECURSIVE FirstMatch(_, _, _)
FirstMatch(spots, p, k) ==
    IF k > Len(spots) THEN 0
    ELSE IF Between(spots[k].location, p) < HotspotDm THEN k
    ELSE FirstMatch(spots, p, k + 1)

\* recentBookings.forEach of identifyHotspots, after the first i bookings
RECURSIVE Grouped(_, _)
Grouped(recent, i) ==
    IF i = 0 THEN Returned(<<>>)
    ELSE LET prev == Grouped(recent, i - 1)
             p == recent[i].pickup
         IN  IF prev.threw \/ ~Truthy(p) THEN prev
             ELSE IF prev.list = <<>> THEN Returned(<<[location |-> p, count |-> 1]>>)
             ELSE IF ~HaversineImported THEN Threw
             ELSE LET k == FirstMatch(prev.list, p, 1)
                  IN  IF k > 0
                      THEN Returned([prev.list EXCEPT ![k].count = @ + 1])
                      ELSE Returned(Append(prev.list, [location |-> p, count |-> 1]))

\* sort((a, b) => b.key - a.key) on a short array: a stable insertion sort,
\* here of the indices
RECURSIVE InsertByKey(_, _, _)
InsertByKey(keys, order, i) ==
    IF order = <<>> THEN <<i>>
    ELSE LET last == order[Len(order)]
         IN  IF keys[i] - keys[last] > 0
             THEN Append(InsertByKey(keys, SubSeq(order, 1, Len(order) - 1), i), last)
             ELSE Append(order, i)

RECURSIVE OrderFrom(_, _)
OrderFrom(keys, n) ==
    IF n = 0 THEN <<>> ELSE InsertByKey(keys, OrderFrom(keys, n - 1), n)

SortDescending(items, keys) ==
    LET order == OrderFrom(keys, Len(keys))
    IN  [i \in 1..Len(items) |-> items[order[i]]]

identifyHotspots(recent) ==
    LET grouped == Grouped(recent, Len(recent))
    IN  IF grouped.threw THEN Threw
        ELSE Returned(SortDescending(grouped.list,
                         [i \in 1..Len(grouped.list) |-> grouped.list[i].count]))

\* "idleVehicles.some((v) => ...)": another idle vehicle that has a location
\* is less than 1 km from the hotspot
AnotherVehicleNearby(idle, id, hotspot) ==
    \E j \in 1..Len(idle) :
        /\ idle[j].id # id
        /\ idle[j].location.kind # "missing"
        /\ Between(idle[j].location, hotspot.location) < NearbyDm

\* Math.round(count * 5 / Math.max(1, distance)), capped at 10
Priority(count, dist) ==
    Min(MaxPriority,
        IF dist <= DmPerKm THEN count * DemandWeight
        ELSE (2 * count * DemandWeight * DmPerKm + dist) \div (2 * dist))

\* "for (const hotspot of hotspots)" from the k-th hotspot on: the suggestion
\* pushed for the vehicle, if any
RECURSIVE SuggestionFor(_, _, _, _)
SuggestionFor(idle, vehicle, hotspots, k) ==
    IF k > Len(hotspots) THEN <<>>
    ELSE LET hotspot == hotspots[k]
             dist == Between(vehicle.location, hotspot.location)
         IN  IF AnotherVehicleNearby(idle, vehicle.id, hotspot)
             THEN SuggestionFor(idle, vehicle, hotspots, k + 1)
             ELSE IF dist > AtHotspotDm
             THEN <<[vehicleId |-> vehicle.id,
                     currentLocation |-> vehicle.location,
                     targetLocation |-> hotspot.location,
                     priority |-> Priority(hotspot.count, dist),
                     distance |-> dist,
                     reason |-> hotspot.count]>>
             ELSE SuggestionFor(idle, vehicle, hotspots, k + 1)

\* idleVehicles.forEach from the i-th vehicle on
RECURSIVE SuggestionsFrom(_, _, _)
SuggestionsFrom(idle, hotspots, i) ==
    IF i > Len(idle) THEN <<>>
    ELSE (IF Truthy(idle[i].location)
          THEN SuggestionFor(idle, idle[i], hotspots, 1)
          ELSE <<>>) \o SuggestionsFrom(idle, hotspots, i + 1)

generateRebalanceSuggestions(idle, recent) ==
    IF idle = <<>> \/ recent = <<>> THEN Returned(<<>>)
    ELSE LET hotspots == identifyHotspots(recent)
         IN  IF hotspots.threw THEN Threw
             \* the first vehicle with coordinates reaches a call of
             \* haversineDistanceKm at the first hotspot: in some() for
             \* another vehicle, or else for itself
             ELSE IF /\ ~HaversineImported
                     /\ hotspots.list # <<>>
                     /\ \E i \in 1..Len(idle) : Truthy(idle[i].location)
             THEN Threw
             ELSE LET found == SuggestionsFrom(idle, hotspots.list, 1)
                  IN  Returned(SortDescending(found,
                                   [i \in 1..Len(found) |-> found[i].priority]))

\* applyRebalanceSuggestion for each of suggestions.slice(0, 3)
Applied(top) ==
    [v \in VehicleIds |->
        IF \E i \in 1..Len(top) : top[i].vehicleId = v
        THEN LET i == CHOOSE i \in 1..Len(top) : top[i].vehicleId = v
             IN  [vehicles[v] EXCEPT !.targetLocation = top[i].targetLocation,
                                     !.rebalanceReason = top[i].reason]
        ELSE vehicles[v]]

\* runRebalancer(admin, autoApply) with its two queries and its writes taken
\* at one instant; trigger tells who called it and so who gets the outcome
runRebalancer(trigger, autoApply) ==
    LET plan == generateRebalanceSuggestions(IdleVehicles, RecentBookings) IN
    /\ process = "up"
    /\ rebalancer' = [trigger |-> trigger, autoApply |-> autoApply,
                      outcome |-> IF plan.threw THEN "threw" ELSE "returned",
                      suggestions |-> plan.list]
    /\ vehicles' = IF ~plan.threw /\ autoApply /\ plan.list # <<>>
                   THEN Applied(SubSeq(plan.list, 1, Min(TopSuggestions, Len(plan.list))))
                   ELSE vehicles
    /\ UNCHANGED <<bookings, calls, feed, responses, pushes, process, envSteps>>

\* runRebalancer(admin, true).catch(...): the start-up run and each timer tick
RebalanceTick == runRebalancer("timer", TRUE)

\* app.post("/rebalance"): "autoApply = req.body.autoApply === true"; the
\* suggestions go into the response, an error becomes a 500
RebalanceRequest(autoApply) == runRebalancer("manual", autoApply)

(***************************************************************************)
(* The system.                                                             *)
(***************************************************************************)
Init ==
    /\ bookings = [b \in BookingIds |-> AbsentBooking]
    /\ vehicles \in Fleets
    /\ calls = [c \in CallIds |-> IdleCall]
    /\ feed = [b \in BookingIds |-> "none"]
    /\ responses = [b \in BookingIds |-> "none"]
    /\ pushes = [b \in BookingIds |-> <<>>]
    /\ process = "up"
    /\ rebalancer = NoRun
    /\ envSteps = 0

\* the server with its timer; POST /rebalance, which runs what a timer tick
\* runs, is taken with the rebalancer's own runs in PlanSpec
Next ==
    \/ \E b \in BookingIds, payload \in PostPayloads : CreateBooking(b, payload)
    \/ \E b \in BookingIds, doc \in DirectDocs : DirectAdd(b, doc)
    \/ \E b \in BookingIds : FeedHandle(b)
    \/ \E c \in CallIds : AssignLoad(c)
    \/ \E c \in CallIds : AssignScan(c)
    \/ \E c \in CallIds : AssignCommit(c)
    \/ \E c \in CallIds : AssignNotify(c)
    \/ \E v \in VehicleIds : VehicleStatusChange(v)
    \/ \E v \in VehicleIds : VehicleRemoved(v)
    \/ \E b \in BookingIds : BookingCancelled(b)
    \/ RebalanceTick

Spec == Init /\ [][Next]_vars

\* the assignment paths alone: the rebalancer writes neither collection
AssignNext ==
    \/ \E b \in BookingIds, payload \in PostPayloads : CreateBooking(b, payload)
    \/ \E b \in BookingIds, doc \in DirectDocs : DirectAdd(b, doc)
    \/ \E b \in BookingIds : FeedHandle(b)
    \/ \E c \in CallIds : AssignLoad(c)
    \/ \E c \in CallIds : AssignScan(c)
    \/ \E c \in CallIds : AssignCommit(c)
    \/ \E c \in CallIds : AssignNotify(c)
    \/ \E v \in VehicleIds : VehicleStatusChange(v)
    \/ \E v \in VehicleIds : VehicleRemoved(v)
    \/ \E b \in BookingIds : BookingCancelled(b)

AssignSpec == Init /\ [][AssignNext]_vars

(***************************************************************************)
(* The race of section 8: two pending bookings, one assign call for each   *)
(* just started, one idle vehicle carrying n bookings, nobody else writing.*)
(***************************************************************************)
RaceInit ==
    /\ bookings = [b \in BookingIds |-> NewBooking(StrNumber, Coord(0, 0))]
    /\ \E n \in 0..Capacity :
          vehicles = [v \in VehicleIds |->
              IF v = "v1"
              THEN [status |-> "idle", location |-> Coord(3, 4),
                    currentPassengers |-> OldBookings(v, n), fcmToken |-> TRUE,
                    targetLocation |-> NoTarget, rebalanceReason |-> NoReason]
              ELSE IF v = "v2"
              THEN [status |-> "busy", location |-> Coord(5, 0),
                    currentPassengers |-> <<>>, fcmToken |-> FALSE,
                    targetLocation |-> NoTarget, rebalanceReason |-> NoReason]
              ELSE AbsentVehicle]
    /\ calls = [c \in CallIds |-> IF c[2] = "post" THEN [IdleCall EXCEPT !.pc = "load"]
                                  ELSE IdleCall]
    /\ feed = [b \in BookingIds |-> "queued"]
    /\ responses = [b \in BookingIds |-> "200"]
    /\ pushes = [b \in BookingIds |-> <<>>]
    /\ process = "up"
    /\ rebalancer = NoRun
    /\ envSteps = 0

RaceNext ==
    \/ \E c \in CallIds : AssignLoad(c)
    \/ \E c \in CallIds : AssignScan(c)
    \/ \E c \in CallIds : AssignCommit(c)
    \/ \E c \in CallIds : AssignNotify(c)

RaceSpec == RaceInit /\ [][RaceNext]_vars

(***************************************************************************)
(* The choice of a vehicle: one pending booking at (0, 0), its assign call *)
(* just started, and a fleet of up to three vehicles, each on a trip or    *)
(* idle at one of PickLocations with PickLoads bookings.  The distances to *)
(* the pickup are 555 dm for (3, 4), and 943, 950 and 956 dm for (6, 6),   *)
(* (8, 3) and (7, 5): each of the last three is within a metre of the next,*)
(* the first and the last of them are not.                                 *)
(***************************************************************************)
PickLocations == {Coord(3, 4), Coord(6, 6), Coord(8, 3), Coord(7, 5)}
PickLoads == {0, 1, 2}

PickVehicles(v) ==
    {[status |-> "busy", location |-> Coord(3, 4), currentPassengers |-> <<>>,
      fcmToken |-> FALSE, targetLocation |-> NoTarget, rebalanceReason |-> NoReason]}
    \cup {[status |-> "idle", location |-> l, currentPassengers |-> OldBookings(v, n),
            fcmToken |-> (v = "v1"), targetLocation |-> NoTarget,
            rebalanceReason |-> NoReason] : l \in PickLocations, n \in PickLoads}

PickInit ==
    /\ bookings = [b \in BookingIds |->
            IF b = 1 THEN NewBooking(StrNumber, Coord(0, 0)) ELSE AbsentBooking]
    /\ vehicles \in [VehicleIds -> UNION {PickVehicles(v) : v \in VehicleIds}]
    /\ \A v \in VehicleIds : vehicles[v] \in PickVehicles(v)
    /\ calls = [c \in CallIds |-> IF c = <<1, "post">> THEN [IdleCall EXCEPT !.pc = "load"]
                                  ELSE IdleCall]
    /\ feed = [b \in BookingIds |-> IF b = 1 THEN "queued" ELSE "none"]
    /\ responses = [b \in BookingIds |-> IF b = 1 THEN "200" ELSE "none"]
    /\ pushes = [b \in BookingIds |-> <<>>]
    /\ process = "up"
    /\ rebalancer = NoRun
    /\ envSteps = 0

PickNext ==
    \/ \E c \in CallIds : AssignLoad(c)
    \/ \E c \in CallIds : AssignScan(c)
    \/ \E c \in CallIds : AssignCommit(c)
    \/ \E c \in CallIds : AssignNotify(c)

PickSpec == PickInit /\ [][PickNext]_vars

(***************************************************************************)
(* A run of the rebalancer over a snapshot: up to MaxRecent bookings of the*)
(* last hour and up to three vehicles.  0.5 km is 45 steps of 0.0001       *)
(* degree and 1 km is 90: the pickups (10, 10), (30, 10) and (50, 10) are  *)
(* within 0.5 km of each other, (60, 10) is 0.56 km from the first and     *)
(* less than 0.5 km from the other two, (0, 0) is the default pickup.  A   *)
(* vehicle is idle and empty at one of PlanLocations, or idle and carrying *)
(* a booking, or on a trip.                                                *)
(***************************************************************************)
PlanPickups ==
    {Coord(10, 10), Coord(30, 10), Coord(50, 10), Coord(60, 10), Coord(0, 0)}
PlanLocations == {Coord(10, 10), Coord(10, 110), Coord(0, 110), NoLocation}

PlanVehicles(v) ==
    {[status |-> "idle", location |-> l, currentPassengers |-> <<>>,
      fcmToken |-> FALSE, targetLocation |-> NoTarget,
      rebalanceReason |-> NoReason] : l \in PlanLocations}
    \cup {[status |-> st, location |-> Coord(10, 110),
            currentPassengers |-> OldBookings(v, 1), fcmToken |-> FALSE,
            targetLocation |-> NoTarget, rebalanceReason |-> NoReason] :
                st \in {"idle", "busy"}}

PlanInit ==
    /\ bookings \in [1..MaxRecent ->
            {AbsentBooking} \cup {NewBooking(StrNumber, p) : p \in PlanPickups}]
    /\ vehicles \in [VehicleIds -> UNION {PlanVehicles(v) : v \in VehicleIds}]
    /\ \A v \in VehicleIds : vehicles[v] \in PlanVehicles(v)
    /\ calls = [c \in CallIds |-> IdleCall]
    /\ feed = [b \in BookingIds |-> "none"]
    /\ responses = [b \in BookingIds |-> "none"]
    /\ pushes = [b \in BookingIds |-> <<>>]
    /\ process = "up"
    /\ rebalancer = NoRun
    /\ envSteps = 0

PlanNext ==
    \/ RebalanceTick
    \/ \E autoApply \in BOOLEAN : RebalanceRequest(autoApply)

PlanSpec == PlanInit /\ [][PlanNext]_vars

(***************************************************************************)
(* The push after an assignment: the server and its listener, nobody       *)
(* cancelling a booking or changing a vehicle, and clients that also add   *)
(* pending bookings with pickup coordinates themselves, with a short phone *)
(* number or with none (POST /booking refuses a request without a number,  *)
(* the listener takes every pending document added to the collection).     *)
(***************************************************************************)
ShortNumber == [kind |-> "str", digits |-> <<4, 2>>]

NotifyDocs ==
    DirectDocs \cup { [number |-> NoNumber, pickup |-> Coord(0, 0)],
                      [number |-> ShortNumber, pickup |-> Coord(0, 0)] }

NotifyNext ==
    \/ \E b \in BookingIds, payload \in PostPayloads : CreateBooking(b, payload)
    \/ \E b \in BookingIds, doc \in NotifyDocs : DirectAdd(b, doc)
    \/ \E b \in BookingIds : FeedHandle(b)
    \/ \E c \in CallIds : AssignLoad(c)
    \/ \E c \in CallIds : AssignScan(c)
    \/ \E c \in CallIds : AssignCommit(c)
    \/ \E c \in CallIds : AssignNotify(c)

NotifySpec == Init /\ [][NotifyNext]_vars

(***************************************************************************)
(* Properties.                                                             *)
(***************************************************************************)
Range(q) == {q[i] : i \in 1..Len(q)}

Carried(v) == vehicles[v].currentPassengers

InFlight(c) == calls[c].pc \in {"load", "scan", "txn", "notify"}

Ended(c, result) == calls[c].pc = "done" /\ calls[c].outcome = result

\* c takes its step of the transaction and the transaction writes
Commits(c) == calls[c].pc = "txn" /\ calls'[c].pc = "notify"

\* c takes its step of the transaction and the transaction throws
Aborts(c) == calls[c].pc = "txn" /\ calls'[c].pc = "done"

\* no booking id twice in one carried list, none in two lists
NoDoubleEntry ==
    /\ \A v \in VehicleIds : Cardinality(Range(Carried(v))) = Len(Carried(v))
    /\ \A v, w \in VehicleIds : v # w => Range(Carried(v)) \cap Range(Carried(w)) = {}

\* C1: under every interleaving of assign calls, duplicate triggers for one
\* booking included, no booking id is carried twice (in one list or in two),
\* and an assigned booking stays assigned to the vehicle it was assigned to.
C1_AssignedAtMostOnce ==
    /\ NoDoubleEntry
    /\ [][/\ NoDoubleEntry'
          /\ \A b \in BookingIds :
                bookings[b].status = "assigned"
                    => /\ bookings'[b].status = "assigned"
                       /\ bookings'[b].assignedVehicleId = bookings[b].assignedVehicleId]_vars

\* both triggers of one booking ran, and the one that lost met the other's
\* assignment in its transaction
C1_Witness ==
    \E b \in BookingIds :
        /\ bookings[b].status = "assigned"
        /\ \E s, t \in Sources :
              Ended(<<b, s>>, "assigned") /\ Ended(<<b, t>>, "already_handled")

\* C2: no vehicle ever carries more than 7 bookings, and the scan never
\* chooses a vehicle that carries 7.
C2_CapacityKept ==
    /\ \A v \in VehicleIds : Len(Carried(v)) <= Capacity
    /\ [][/\ \A v \in VehicleIds : Len(Carried(v)') <= Capacity
          /\ \A c \in CallIds :
                (calls[c].pc = "scan" /\ calls'[c].pc = "txn")
                    => Len(Carried(calls'[c].chosen.id)) < Capacity]_vars

\* a vehicle was filled by an assignment of this run and a later transaction
\* found it full
C2_Witness ==
    \E v \in VehicleIds, c \in CallIds :
        /\ Len(Carried(v)) = Capacity
        /\ Range(Carried(v)) \cap BookingIds # {}
        /\ calls[c].chosen.id = v
        /\ Ended(c, "vehicle_full")

\* the bookings v1 carried when the race started
RaceLoad == Cardinality(Range(Carried("v1")) \ BookingIds)

RaceOver == \A c \in CallIds : c[2] = "post" => calls[c].pc = "done"

Assigned == {b \in BookingIds : bookings[b].status = "assigned"}

C4_CommitsOnlyToIdleVehicle ==
    [][\A c \in CallIds :
          Commits(c) => /\ vehicles[calls[c].chosen.id].status = "idle"
                        /\ Len(Carried(calls[c].chosen.id)) < Capacity]_vars

\* C5: a booking of the run is assigned to v exactly when v carries it, and a
\* transaction that throws changes neither collection.
C5_AllOrNothing ==
    /\ [][\A c \in CallIds : Aborts(c) => UNCHANGED <<bookings, vehicles>>]_vars
    /\ [](\A b \in BookingIds, v \in VehicleIds :
            (bookings[b].status = "assigned" /\ bookings[b].assignedVehicleId = v)
                <=> b \in Range(Carried(v)))

\* one transaction wrote and another one threw because the vehicle was full or
\* gone
C5_Witness ==
    /\ \E c \in CallIds : Ended(c, "assigned")
    /\ \E c \in CallIds : Ended(c, "vehicle_full") \/ Ended(c, "vehicle_gone")

\* C6: assign on a booking that exists and is not pending ends without an
\* error, and changes no booking, no vehicle and sends nothing.
C6_NotPendingIsNoOp ==
    [][\A c \in CallIds :
          (/\ calls[c].pc = "load"
           /\ calls'[c] # calls[c]
           /\ bookings[c[1]].status \notin {"pending", "absent"})
              => /\ calls'[c].pc = "done"
                 /\ calls'[c].outcome = "skipped"
                 /\ UNCHANGED <<bookings, vehicles, pushes>>]_vars

\* assign was invoked again on a booking that is assigned
C6_Witness ==
    \E c \in CallIds : Ended(c, "skipped") /\ bookings[c[1]].status = "assigned"

\* C7: when no vehicle is idle with a free seat and a location, the scan ends
\* the call without an error; the booking stays as it is and no vehicle
\* changes.
C7_NoCandidateIsBenign ==
    [][\A c \in CallIds :
          (/\ calls[c].pc = "scan"
           /\ calls'[c] # calls[c]
           /\ \A v \in VehicleIds :
                 \/ vehicles[v].status # "idle"
                 \/ Len(Carried(v)) >= Capacity
                 \/ vehicles[v].location.kind # "coord")
              => /\ calls'[c].pc = "done"
                 /\ calls'[c].outcome = "no_candidate"
                 /\ UNCHANGED <<bookings, vehicles, pushes>>]_vars

\* a call found no candidate although a vehicle is idle (it is full, or has no
\* location), and its booking is still pending
C7_Witness ==
    \E c \in CallIds :
        /\ Ended(c, "no_candidate")
        /\ bookings[c[1]].status = "pending"
        /\ \E v \in VehicleIds : vehicles[v].status = "idle"

\* C8: once its transaction has written, a call ends without an error, with
\* the booking assigned and carried by the chosen vehicle.
C8_NotifyNeverFailsAssign ==
    \A c \in CallIds :
        (calls[c].pc = "notify" \/ Ended(c, "assigned") \/ Ended(c, "threw_after_commit"))
            => /\ bookings[c[1]].status = "assigned"
               /\ c[1] \in Range(Carried(calls[c].chosen.id))
               /\ calls[c].outcome # "threw_after_commit"

\* C9: no failure of a background assign or of the listener's handler stops
\* the listener or the timer, or reaches the response of POST /booking.
C9_FailuresContained ==
    /\ process = "up"
    /\ \A b \in BookingIds : feed[b] # "failed"
    /\ \A b \in BookingIds : calls[<<b, "post">>].pc # "idle" => responses[b] = "200"

\* C10, for a finite run: while a vehicle is idle with a free seat and a
\* location, every pending booking with a pickup still has a trigger ahead of
\* it: its "added" event not yet handled, or an assign call not yet past its
\* transaction.  (Nothing else ever calls assign for it.)
C10_PendingHasTrigger ==
    \A b \in BookingIds :
        (/\ process = "up"
         /\ bookings[b].status = "pending"
         /\ bookings[b].pickup.kind = "coord"
         /\ \E v \in VehicleIds : Eligible(v))
            => \/ feed[b] \in {"queued", "queued_legacy", "queued_missing"}
               \/ \E s \in Sources : calls[<<b, s>>].pc \in {"load", "scan", "txn"}

\* v can take one more booking: idle, a free seat, a location
CanTake(v) ==
    /\ vehicles[v].status = "idle"
    /\ Len(Carried(v)) < Capacity
    /\ vehicles[v].location.kind = "coord"

\* the distance from v to pickup p, in decimetres
PickDist(v, p) ==
    haversineDistanceKm(vehicles[v].location.lat, vehicles[v].location.lng, p.lat, p.lng)

\* c takes its step of the scan and chooses a vehicle
Chooses(c) == calls[c].pc = "scan" /\ calls'[c].pc = "txn"

\* C11: with exactly two vehicles able to take the booking, the scan chooses
\* the one carrying fewer when their distances to the pickup are less than
\* 0.001 km apart, and the nearer one otherwise, whichever comes first in the
\* query result.
C11_TwoCandidates ==
    [][\A c \in CallIds : \A v, w \in VehicleIds :
          (Chooses(c) /\ v # w /\ {x \in VehicleIds : CanTake(x)} = {v, w})
              => LET dv == PickDist(v, calls[c].booking.pickup)
                     dw == PickDist(w, calls[c].booking.pickup)
                 IN  /\ (Abs(dv - dw) < TieDm /\ Len(Carried(v)) < Len(Carried(w)))
                            => calls'[c].chosen.id = v
                     /\ (Abs(dv - dw) >= TieDm /\ dv < dw)
                            => calls'[c].chosen.id = v]_vars

\* of two vehicles less than a metre apart in distance, the scan has chosen the
\* farther one, which carries fewer and comes later in the query result
C11_Witness ==
    \E c \in CallIds :
        /\ calls[c].pc = "txn"
        /\ calls[c].chosen.id = "v2"
        /\ {x \in VehicleIds : CanTake(x)} = {"v1", "v2"}
        /\ PickDist("v2", calls[c].booking.pickup) > PickDist("v1", calls[c].booking.pickup)
        /\ PickDist("v2", calls[c].booking.pickup) - PickDist("v1", calls[c].booking.pickup) < TieDm
        /\ Len(Carried("v2")) < Len(Carried("v1"))

\* C16: an assign call on a pending booking whose pickup coordinates are
\* missing or are not numbers ends with an error and writes no booking and no
\* vehicle; a creation request without the requester number or without the
\* pickup stores no booking and starts no assign call.
C16_InvalidInputRejected ==
    [][/\ \A c \in CallIds :
             (/\ calls[c].pc = "load"
              /\ calls'[c] # calls[c]
              /\ bookings[c[1]].status = "pending"
              /\ bookings[c[1]].pickup.kind # "coord")
                 => /\ calls'[c].pc = "done"
                    /\ calls'[c].outcome = "invalid"
                    /\ UNCHANGED <<bookings, vehicles>>
       /\ \A b \in BookingIds : \A payload \in PostPayloads :
             (/\ CreateBooking(b, payload)
              /\ payload.number.kind = "none" \/ payload.pickup.kind = "missing")
                 => UNCHANGED <<bookings, calls>>]_vars

\* the coordinates the documents hold
CoordsInUse ==
    {vehicles[v].location : v \in {x \in VehicleIds : vehicles[x].location.kind = "coord"}}
    \cup {bookings[b].pickup : b \in {x \in DOMAIN bookings : bookings[x].pickup.kind = "coord"}}

Takers == {x \in VehicleIds : CanTake(x)}
NearTie(v, w, p) == Abs(PickDist(v, p) - PickDist(w, p)) < TieDm

\* vehicle v is nearest up to the tolerance: less than 0.001 km farther than
\* the nearest taker, and no taker less than 0.001 km from it carries fewer
NearestUpToTolerance(v, p) ==
    /\ \A w \in Takers : PickDist(v, p) - PickDist(w, p) < TieDm
    /\ \A w \in Takers : NearTie(v, w, p) => Len(Carried(w)) >= Len(Carried(v))

\* C18 as claimed: for any set of vehicles that can take the booking, the
\* vehicle the scan chooses is nearest up to the tolerance.
C18_ChosenIsNearest ==
    [][\A c \in CallIds :
          Chooses(c) => NearestUpToTolerance(calls'[c].chosen.id, calls[c].booking.pickup)]_vars

\* C18 as amended: the vehicle the scan chooses is nearest up to the tolerance
\* whenever being less than 0.001 km apart is transitive among the vehicles
\* that can take the booking.
C18_ChosenIsNearestIfTiesTransitive ==
    [][\A c \in CallIds :
          (/\ Chooses(c)
           /\ \A x, y, z \in Takers :
                 (NearTie(x, y, calls[c].booking.pickup) /\ NearTie(y, z, calls[c].booking.pickup))
                     => NearTie(x, z, calls[c].booking.pickup))
              => NearestUpToTolerance(calls'[c].chosen.id, calls[c].booking.pickup)]_vars

\* three vehicles can take the booking, two of them less than a metre apart in
\* distance and the third nearer by much; the scan has chosen the third,
\* which comes last in the query result and carries most
C18_Witness ==
    \E c \in CallIds :
        /\ calls[c].pc = "txn"
        /\ calls[c].chosen.id = "v3"
        /\ Takers = VehicleIds
        /\ NearTie("v1", "v2", calls[c].booking.pickup)
        /\ PickDist("v1", calls[c].booking.pickup) # PickDist("v2", calls[c].booking.pickup)
        /\ ~NearTie("v1", "v3", calls[c].booking.pickup)
        /\ ~NearTie("v2", "v3", calls[c].booking.pickup)
        /\ Len(Carried("v3")) > Len(Carried("v1"))
        /\ Len(Carried("v3")) > Len(Carried("v2"))

\* a run of runRebalancer has ended
RunEnded == rebalancer.trigger # "none"

\* the pickups of the recent bookings that have both coordinates, latest first
PickupsSeen ==
    LET seen == SelectSeq(RecentBookings, LAMBDA r : Truthy(r.pickup))
    IN  [i \in 1..Len(seen) |-> seen[i].pickup]

\* the greedy, first-seen anchored grouping of the pickups seen: the anchor of
\* a pickup is the first earlier anchor less than 0.5 km from it, or itself
GreedyAnchor ==
    LET pts == PickupsSeen
        Anchor[i \in 1..Len(pts)] ==
            LET earlier == {j \in 1..(i - 1) :
                               Anchor[j] = j /\ Between(pts[j], pts[i]) < HotspotDm}
            IN  IF earlier = {} THEN i
                ELSE CHOOSE j \in earlier : \A k \in earlier : j <= k
    IN  Anchor

\* one hotspot per anchor, counting the pickups that belong to it
GreedyHotspots ==
    {[location |-> PickupsSeen[i],
      count |-> Cardinality({j \in 1..Len(PickupsSeen) : GreedyAnchor[j] = i})] :
        i \in {k \in 1..Len(PickupsSeen) : GreedyAnchor[k] = k}}

\* C12: the hotspots of a run are those of the greedy, first-seen anchored
\* grouping: a pickup less than 0.5 km from an earlier anchor belongs to the
\* first such anchor and is an anchor itself otherwise; there is one hotspot
\* per anchor, at the anchor, counting the pickups that belong to it, and the
\* hotspots are ordered by count descending.  (Pickups with a zero coordinate
\* are left out here.)
C12_GreedyClustering ==
    RunEnded =>
        LET hotspots == identifyHotspots(RecentBookings)
        IN  /\ ~hotspots.threw
            /\ Len(hotspots.list) = Cardinality(GreedyHotspots)
            /\ \A k \in 1..Len(hotspots.list) : hotspots.list[k] \in GreedyHotspots
            /\ \A k \in 1..(Len(hotspots.list) - 1) :
                  hotspots.list[k].count >= hotspots.list[k + 1].count

\* hotspot h qualifies for vehicle v: v is more than 0.5 km from it and no
\* other idle vehicle with a location is less than 1 km from it
Qualifies(v, h) ==
    /\ Between(vehicles[v].location, h.location) > AtHotspotDm
    /\ \A w \in VehicleIds \ {v} :
          (vehicles[w].status = "idle" /\ vehicles[w].location.kind = "coord")
              => Between(vehicles[w].location, h.location) >= NearbyDm

\* C20: after a run, every vehicle that is idle and has a location, and for
\* which some hotspot qualifies, has exactly one suggestion in the returned
\* list, to a qualifying hotspot of the largest count; the list is empty when
\* no vehicle is idle or there is no recent booking.
C20_PlannerComplete ==
    RunEnded =>
        /\ \A v \in VehicleIds :
              LET open == {h \in GreedyHotspots : Qualifies(v, h)}
                  mine == {i \in 1..Len(rebalancer.suggestions) :
                              rebalancer.suggestions[i].vehicleId = v}
              IN  (/\ vehicles[v].status = "idle"
                   /\ vehicles[v].location.kind = "coord"
                   /\ open # {})
                      => /\ rebalancer.outcome = "returned"
                         /\ Cardinality(mine) = 1
                         /\ \E h \in open :
                               /\ \A g \in open : g.count <= h.count
                               /\ \A i \in mine :
                                     rebalancer.suggestions[i].targetLocation = h.location
        /\ ((\A v \in VehicleIds : vehicles[v].status # "idle") \/ RecentBookings = <<>>)
              => rebalancer.outcome = "returned" /\ rebalancer.suggestions = <<>>

\* the messages sent for booking b
Sent(b) == Range(pushes[b])

\* C21: the verification code a push for a booking carries is the
\* verificationCode stored on the booking, also for a booking without a phone
\* number, where the stored code is a random one.
C21_PushCarriesStoredCode ==
    \A b \in BookingIds : \A m \in Sent(b) :
        m.verificationCode = bookings[b].verificationCode

\* the results of a call that wrote nothing: the no-op, no candidate, and the
\* transaction that aborted on one of its re-checks
Unassigned ==
    {"skipped", "no_candidate", "booking_gone", "already_handled", "vehicle_gone",
     "vehicle_full"}

\* C22: a push for booking b goes out only in a call whose transaction has
\* committed b to the vehicle the push is for, which then carries b; at most
\* one push for b is ever sent, whatever the number of assign calls for b;
\* and a call that ends as a no-op, without a candidate or on an aborted
\* transaction sends none.
C22_PushAfterCommitAtMostOnce ==
    [][\A b \in BookingIds :
          /\ pushes'[b] # pushes[b]
                => \E c \in CallIds :
                      /\ c[1] = b
                      /\ calls[c].pc = "notify"
                      /\ bookings[b].status = "assigned"
                      /\ bookings[b].assignedVehicleId = calls[c].chosen.id
                      /\ b \in Range(Carried(calls[c].chosen.id))
                      /\ pushes[b] = <<>>
                      /\ Len(pushes'[b]) = 1
                      /\ pushes'[b][1].to = calls[c].chosen.id
                      /\ pushes'[b][1].bookingId = b
          /\ \A c \in CallIds :
                (c[1] = b /\ calls[c].pc # "done" /\ calls'[c].pc = "done"
                      /\ calls'[c].outcome \in Unassigned)
                    => pushes'[b] = pushes[b]]_vars

\* a booking with both of its calls over, one that assigned it and sent the
\* push and one that lost against it in the transaction
C22_Witness ==
    \E b \in BookingIds : \E c, d \in CallIds :
        /\ c[1] = b /\ d[1] = b
        /\ Ended(c, "assigned")
        /\ Ended(d, "already_handled")
        /\ Len(pushes[b]) = 1
        /\ pushes[b][1].to = bookings[b].assignedVehicleId

\* a run that got as far as calling identifyHotspots
HotspotsSought == RunEnded /\ IdleVehicles # <<>> /\ RecentBookings # <<>>

RECURSIVE CountSum(_, _)
CountSum(spots, k) ==
    IF k = 0 THEN 0 ELSE spots[k].count + CountSum(spots, k - 1)

\* C23: the counts of the hotspots identifyHotspots returns add up to the
\* number of recent bookings that have a pickup coordinate, those with a
\* latitude or longitude of 0 included, and no two of the hotspots are at the
\* same point.
C23_DemandConserved ==
    HotspotsSought =>
        LET hotspots == identifyHotspots(RecentBookings)
            located == {k \in 1..Len(RecentBookings) :
                            RecentBookings[k].pickup.kind = "coord"}
        IN  /\ ~hotspots.threw
            /\ CountSum(hotspots.list, Len(hotspots.list)) = Cardinality(located)
            /\ \A j, k \in 1..Len(hotspots.list) :
                  j # k => hotspots.list[j].location # hotspots.list[k].location

\* C24: the planning step of a run never raises: every run of the rebalancer
\* ends with a suggestion list returned.
C24_PlanningNeverRaises ==
    RunEnded => rebalancer.outcome = "returned"

====
